---- MODULE Spec2Model ----
(***************************************************************************)
(* LiveSerialPlotter: the serial reader thread of LiveDataSource           *)
(* (connectToSerial / disconnectFromSerial / closeAllSerialPorts / run),   *)
(* the sample sink it appends to, and the draining consumer of lsp.py.     *)
(*                                                                         *)
(* Text is a sequence of one-character strings; the Python indices l and r *)
(* of run() are kept 0-based, as in the source.                            *)
(***************************************************************************)
EXTENDS Integers, Sequences, FiniteSets, TLC

\* ------------------------------------------------------------------ bounds
MaxLen == 5         \* longest line drawn exhaustively over Alphabet (SpecFrame)
MaxFrames == 3      \* lines the transport delivers in one behaviour (Spec)
MaxThreads == 2     \* reader threads that may ever be started (SpecLife)
MaxWire == 1        \* lines the transport delivers in one behaviour (SpecLife)
NProducers == 2     \* concurrent producers (SpecQ)
MSamples == 2       \* samples each producer enqueues (SpecQ)

\* ---------------------------------------------------------------- alphabet
Digits == {"0", "1", "2", "3", "4", "5", "6", "7", "8", "9"}
Alphabet == {">", "<", " ", ":", "a", "1"}

Threads == 1..MaxThreads
Producers == 1..NProducers

VARIABLES
    IS_SERIAL_CONNECTED,  \* self.IS_SERIAL_CONNECTED
    ser,                  \* the object self.ser names: "none", "open", "closed"
    io_thread,            \* self.io_thread: 0 is None, else a thread id
    serialconnectedstringvar, \* window.serialconnectedstringvar
    pc,                   \* position of every reader thread in run()
    mainpc,               \* position of the GUI thread
    wire,                 \* lines the transport will still deliver
    hist,                 \* the lines readline() has returned, in order
    rawdata,              \* per thread: local rawdata of run()
    payload,              \* per thread: rawdata[l + 1 : r] of run()
    outcome,              \* per thread: branch the last iteration took
    data,                 \* the sample sink window.data / lds.data
    src,                  \* per element of data: ordinal of its line in hist
    labels,               \* lds.labels as read by the display
    requirebrackets,      \* window.requirebrackets.get()
    packageindicator,     \* window.packageindicator
    cpc,                  \* position of the consumer (lsp.py main loop)
    new_data,             \* lsp.py new_data
    consumed,             \* the list the consumer drains into (lsp.py data)
    csrc,                 \* per element of consumed: ordinal of its line
    put,                  \* per producer: samples enqueued so far (SpecQ)
    lineno,               \* per thread: ordinal in hist of the line it holds
    lastop,               \* the last GUI call that returned, with its result
    tcl_threaded,         \* whether Tcl is a threaded build
    tdata,                \* OScope.tdata
    ydata,                \* OScope.ydata: label -> list
    mode,                 \* OScope.mode
    scope_error           \* exception that left OScope.update, or "none"

vars == <<IS_SERIAL_CONNECTED, ser, io_thread, serialconnectedstringvar, pc,
          mainpc, wire, hist, rawdata, payload, outcome, data, src, labels,
          requirebrackets, packageindicator, cpc, new_data, consumed, csrc,
          put, lineno, lastop, tcl_threaded, tdata, ydata, mode, scope_error>>

lifevars == <<IS_SERIAL_CONNECTED, ser, io_thread, serialconnectedstringvar,
              mainpc, lastop>>
locals == <<rawdata, payload, outcome, lineno>>
scopevars == <<tdata, ydata, mode, scope_error>>
consvars == <<cpc, new_data, consumed, csrc>>

\* ------------------------------------------------- Python string operations
Min(S) == CHOOSE x \in S : \A y \in S : x <= y
Max(S) == CHOOSE x \in S : \A y \in S : x >= y

IsSpace(c) == c = " "

\* str.strip(): drop leading and trailing whitespace
RECURSIVE LStrip(_)
LStrip(s) == IF s # <<>> /\ IsSpace(Head(s)) THEN LStrip(Tail(s)) ELSE s

RECURSIVE RStrip(_)
RStrip(s) ==
    IF s # <<>> /\ IsSpace(s[Len(s)]) THEN RStrip(SubSeq(s, 1, Len(s) - 1))
    ELSE s

Strip(s) == RStrip(LStrip(s))

Positions(s, c) == {i \in 1..Len(s) : s[i] = c}

\* str.find(c): 0-based index of the first c, -1 when there is none
Find(s, c) == IF Positions(s, c) = {} THEN -1 ELSE Min(Positions(s, c)) - 1

\* str.rfind(c): 0-based index of the last c, -1 when there is none
RFind(s, c) == IF Positions(s, c) = {} THEN -1 ELSE Max(Positions(s, c)) - 1

\* s[a:b] for a, b >= 0: both ends clipped to len(s), empty when b <= a
Slice(s, a, b) ==
    LET lo == IF a > Len(s) THEN Len(s) ELSE a
        hi == IF b > Len(s) THEN Len(s) ELSE b
    IN  IF hi <= lo THEN <<>> ELSE SubSeq(s, lo + 1, hi)

\* str.split(" "): every single space separates; "" splits into [""]
RECURSIVE Split(_)
Split(s) ==
    IF Positions(s, " ") = {} THEN <<s>>
    ELSE LET i == Min(Positions(s, " "))
         IN  <<SubSeq(s, 1, i - 1)>> \o Split(SubSeq(s, i + 1, Len(s)))

\* float(v) raises ValueError unless v is a number; over Alphabet the
\* numbers are the non-empty digit strings
IsFloat(v) == v # <<>> /\ \A i \in 1..Len(v) : v[i] \in Digits

DigitVal(c) ==
    CASE c = "0" -> 0 [] c = "1" -> 1 [] c = "2" -> 2 [] c = "3" -> 3
      [] c = "4" -> 4 [] c = "5" -> 5 [] c = "6" -> 6 [] c = "7" -> 7
      [] c = "8" -> 8 [] c = "9" -> 9

\* the value float(v) returns for a digit string
RECURSIVE FloatOf(_)
FloatOf(v) ==
    IF Len(v) = 1 THEN DigitVal(v[1])
    ELSE 10 * FloatOf(SubSeq(v, 1, Len(v) - 1)) + DigitVal(v[Len(v)])

\* elements of the list appended to the sink: a float or a raw token
Flt(x) == [kind |-> "float", val |-> x]
Tok(v) == [kind |-> "str", val |-> v]

\* lines 174-179: every token converted, or (ValueError) the tokens kept
Convert(splits) ==
    IF \A i \in 1..Len(splits) : IsFloat(splits[i])
    THEN [i \in 1..Len(splits) |-> Flt(FloatOf(splits[i]))]
    ELSE [i \in 1..Len(splits) |-> Tok(splits[i])]

\* ----------------------------------------------- one iteration of run()
\* line 160: l = rawdata.rfind(">")
OpenIndex(raw) == RFind(raw, ">")

\* a mutated line 161: a line without ">" is not dropped
MissingOpenIgnored(l) == FALSE

\* line 161: if l == -1
MissingOpen(l) == l = -1

\* lines 165-172: r is the index of the first "<" of the whole text when the
\* brackets are required, else the length of the text after the ">"
CloseIndex(raw, l, req) ==
    IF req THEN Find(raw, "<") ELSE Len(Slice(raw, l + 1, Len(raw)))

\* The body of the while loop for the line readline() returned: the branch
\* taken, whether line 181 is reached, and what it appends.
RunBody(line, req) ==
    LET raw == Strip(line)
        l == OpenIndex(raw)
        r == CloseIndex(raw, l, req)
        pl == Slice(raw, l + 1, r)
        splits == Split(pl)
        allfloat == \A i \in 1..Len(splits) : IsFloat(splits[i])
    IN  IF Len(raw) = 0
        THEN [rawdata |-> raw, branch |-> "empty", append |-> FALSE,
              payload |-> <<>>, splits |-> <<>>, indicator |-> "keep"]
        ELSE IF MissingOpen(l)
        THEN [rawdata |-> raw, branch |-> "no_gt", append |-> FALSE,
              payload |-> <<>>, splits |-> <<>>, indicator |-> "bad"]
        ELSE IF req /\ r = -1
        THEN [rawdata |-> raw, branch |-> "no_lt", append |-> FALSE,
              payload |-> <<>>, splits |-> <<>>, indicator |-> "bad"]
        ELSE [rawdata |-> raw,
              branch |-> IF allfloat THEN "good" ELSE "bad",
              append |-> TRUE,
              payload |-> pl,
              splits |-> Convert(splits),
              indicator |-> IF allfloat THEN "good" ELSE "bad"]

\* setPackageIndicator(state): "!" for good, "." otherwise
setPackageIndicator(state) ==
    IF state = "keep" THEN packageindicator
    ELSE IF state = "good" THEN "!" ELSE "."

\* a mutated line 181: the new element is put in front
SinkPrepend(d, x) == <<x>> \o d

\* line 181: window.data.append(splits)
SinkAppend(d, x) == Append(d, x)

\* ------------------------------------------------------ the reader thread
\* line 154: while self.IS_SERIAL_CONNECTED
WhileCheck(t) ==
    /\ pc[t] = "while"
    /\ pc' = [pc EXCEPT ![t] = IF IS_SERIAL_CONNECTED THEN "readline"
                                ELSE "done"]
    /\ UNCHANGED <<lifevars, consvars, wire, hist, locals,
                   data, src, labels, requirebrackets, packageindicator,
                   put, scopevars, tcl_threaded>>

\* lines 155-181 for a line, the n-th the transport delivered
Process(t, line, n) ==
    LET b == RunBody(line, requirebrackets)
    IN  /\ rawdata' = [rawdata EXCEPT ![t] = b.rawdata]
        /\ payload' = [payload EXCEPT ![t] = b.payload]
        /\ outcome' = [outcome EXCEPT ![t] = b.branch]
        /\ packageindicator' = setPackageIndicator(b.indicator)
        /\ data' = IF b.append THEN SinkAppend(data, b.splits) ELSE data
        /\ src' = IF b.append THEN SinkAppend(src, n) ELSE src
        /\ lineno' = [lineno EXCEPT ![t] = n]
        /\ pc' = [pc EXCEPT ![t] = "while"]

\* the rest of an iteration, lines 155-181, for the line the read returned
Iterate(t, line) == Process(t, line, Len(hist'))

\* lines 158, 165 and 146-150: window.printrawdata.get(),
\* window.requirebrackets.get() and setPackageIndicator are Tk calls made by
\* the reader thread. A threaded Tcl queues them for the GUI thread, where
\* they wait until its event loop runs, which it does not while a callback
\* (connectToSerial, disconnectFromSerial) is running; otherwise they are
\* made at once.
TkServes == ~tcl_threaded \/ mainpc = "idle"

\* line 155: bytes.decode("utf8") raises on a byte that is no UTF-8; the
\* byte 0xFF stands for all of them
Decodable(line) == \A i \in 1..Len(line) : line[i] # "0xFF"

\* line 155: readline() returns the next line of the transport
ReadFrame(t) ==
    /\ pc[t] = "readline"
    /\ ser = "open"
    /\ wire # <<>>
    /\ Decodable(Head(wire))
    /\ Strip(Head(wire)) = <<>> \/ TkServes
    /\ wire' = Tail(wire)
    /\ hist' = Append(hist, Head(wire))
    /\ Iterate(t, Head(wire))
    /\ UNCHANGED <<lifevars, consvars, labels, requirebrackets, put,
                   scopevars, tcl_threaded>>

\* line 155: readline() returns b"" when its timeout (1 s) expires
ReadTimeout(t) ==
    /\ pc[t] = "readline"
    /\ ser = "open"
    /\ UNCHANGED hist
    /\ Iterate(t, <<>>)
    /\ UNCHANGED <<lifevars, consvars, wire, labels, requirebrackets, put,
                   scopevars, tcl_threaded>>

\* line 155: the line read is not UTF-8; UnicodeDecodeError is raised outside
\* the try of line 174 and ends the thread
ReadUndecodable(t) ==
    /\ pc[t] = "readline"
    /\ ser = "open"
    /\ wire # <<>>
    /\ ~Decodable(Head(wire))
    /\ wire' = Tail(wire)
    /\ hist' = Append(hist, Head(wire))
    /\ pc' = [pc EXCEPT ![t] = "crashed"]
    /\ UNCHANGED <<lifevars, consvars, locals, data, src, labels,
                   requirebrackets, packageindicator, put, scopevars,
                   tcl_threaded>>

\* line 155 on its own: readline() has returned a line with text and the
\* thread has not reached the Tk call of line 158 yet
ReadLine(t) ==
    /\ pc[t] = "readline"
    /\ ser = "open"
    /\ wire # <<>>
    /\ Decodable(Head(wire))
    /\ Strip(Head(wire)) # <<>>
    /\ wire' = Tail(wire)
    /\ hist' = Append(hist, Head(wire))
    /\ rawdata' = [rawdata EXCEPT ![t] = Strip(Head(wire))]
    /\ lineno' = [lineno EXCEPT ![t] = Len(hist')]
    /\ pc' = [pc EXCEPT ![t] = "body"]
    /\ UNCHANGED <<lifevars, consvars, payload, outcome, data, src, labels,
                   requirebrackets, packageindicator, put, scopevars,
                   tcl_threaded>>

\* lines 158-181 for the line the thread holds
Body(t) ==
    /\ pc[t] = "body"
    /\ TkServes
    /\ Process(t, rawdata[t], lineno[t])
    /\ UNCHANGED <<lifevars, consvars, wire, hist, labels, requirebrackets,
                   put, scopevars, tcl_threaded>>

\* ---------------------------------------------------------- the consumer
\* lsp.py line 73: new_data = 0, then the inner loop is entered
DrainBegin ==
    /\ cpc = "outer"
    /\ cpc' = "inner"
    /\ new_data' = 0
    /\ UNCHANGED <<lifevars, pc, wire, hist, locals, data,
                   src, labels, requirebrackets, packageindicator, consumed,
                   csrc, put, scopevars, tcl_threaded>>

\* a mutated get: the element is returned but stays in the queue
QueueRestKept(d) == d

\* what get(False) leaves in the queue
QueueRest(d) == Tail(d)

\* lsp.py lines 77-78: data.append(lds.data.get(False)); new_data += 1
DrainGet ==
    /\ cpc = "inner"
    /\ data # <<>>
    /\ consumed' = Append(consumed, Head(data))
    /\ csrc' = Append(csrc, Head(src))
    /\ data' = QueueRest(data)
    /\ src' = QueueRest(src)
    /\ new_data' = new_data + 1
    /\ UNCHANGED <<lifevars, pc, wire, hist, locals,
                   labels, requirebrackets, packageindicator, cpc, put,
                   scopevars, tcl_threaded>>

\* a mutated get: get(True) waits on an empty queue and never raises
QueueNeverEmpty(d) == FALSE

\* lsp.py line 77: get(False) raises queue.Empty at once on an empty queue
QueueEmpty(d) == d = <<>>

\* lsp.py lines 79-85: get(False) raises queue.Empty, which ends the drain
DrainEmpty ==
    /\ cpc = "inner"
    /\ QueueEmpty(data)
    /\ cpc' = "outer"
    /\ UNCHANGED <<lifevars, pc, wire, hist, locals, data,
                   src, labels, requirebrackets, packageindicator, new_data,
                   consumed, csrc, put, scopevars, tcl_threaded>>

\* ----------------------------------------------------------- initial states
\* all texts over Alphabet of length at most n
Strings(n) == UNION {[1..k -> Alphabet] : k \in 0..n}

\* sequences over S of length at most n
SeqsUpTo(S, n) == UNION {[1..k -> S] : k \in 0..n}

TimeLabel == <<"t", "i", "m", "e">>

\* one reader thread (thread 1) is running on an open port
ReaderRunning ==
    /\ IS_SERIAL_CONNECTED = TRUE
    /\ ser = "open"
    /\ io_thread = 1
    /\ serialconnectedstringvar = "Connected"
    /\ pc = [t \in Threads |-> IF t = 1 THEN "while" ELSE "idle"]
    /\ mainpc = "idle"
    /\ lastop = "connect:None"
    /\ tcl_threaded = TRUE

\* OScope.__init__, lines 36-47 and 81: one time stamp, one 0 per data label
ScopeInit ==
    /\ tdata = <<0>>
    /\ ydata = [l \in {labels[i] : i \in 2..Len(labels)} |-> <<0>>]
    /\ mode = 0
    /\ scope_error = "none"

FreshSource ==
    /\ hist = <<>>
    /\ rawdata = [t \in Threads |-> <<>>]
    /\ payload = [t \in Threads |-> <<>>]
    /\ outcome = [t \in Threads |-> "none"]
    /\ data = <<>>
    /\ src = <<>>
    /\ packageindicator = "."
    /\ cpc = "outer"
    /\ new_data = 0
    /\ consumed = <<>>
    /\ csrc = <<>>
    /\ put = [p \in Producers |-> 0]
    /\ lineno = [t \in Threads |-> 0]

FreshState ==
    /\ FreshSource
    /\ labels = <<TimeLabel>>
    /\ ScopeInit

\* lines the transport delivers in Spec
F_a1 == <<">", "a", ":", "1", "<">>
F_a1b2 == <<">", "a", ":", "1", " ", "b", ":", "2", "<">>
F_12 == <<">", "1", " ", "2", "<">>
F_3 == <<">", "3", "<">>
F_1x3 == <<">", "1", " ", "x", " ", "3", "<">>
F_nogt == <<"1", " ", "2", "<">>
F_nolt == <<">", "1", " ", "2">>
F_blank == <<" ">>
F_undecodable == <<">", "0xFF", "<">>

Frames ==
    {F_a1, F_a1b2, F_12, F_3, F_1x3, F_nogt, F_nolt, F_blank, F_undecodable}

\* ---------------------------------------------------------------- SpecFrame
\* One line, drawn from every text over Alphabet up to MaxLen, goes through
\* the reader loop, followed or not by the line ">3<".
InitFrame ==
    /\ ReaderRunning
    /\ FreshState
    /\ requirebrackets \in BOOLEAN
    /\ wire \in {<<f>> : f \in Strings(MaxLen)}
               \cup {<<f, F_3>> : f \in Strings(MaxLen)}

NextFrame ==
    \/ WhileCheck(1)
    \/ ReadFrame(1)
    \/ ReadTimeout(1)

SpecFrame == InitFrame /\ [][NextFrame]_vars

\* --------------------------------------------------------------------- Spec
\* One reader receives up to MaxFrames lines and the consumer drains the sink.
Init ==
    /\ ReaderRunning
    /\ FreshState
    /\ requirebrackets \in BOOLEAN
    /\ wire \in SeqsUpTo(Frames, MaxFrames)

Next ==
    \/ WhileCheck(1)
    \/ ReadFrame(1)
    \/ ReadTimeout(1)
    \/ ReadUndecodable(1)
    \/ DrainBegin
    \/ DrainGet
    \/ DrainEmpty

Spec == Init /\ [][Next]_vars

\* -------------------------------------------------------------------- SpecQ
\* NProducers threads each append MSamples samples to the sink while the
\* consumer drains it.
SampleId(p, k) == (p - 1) * MSamples + k

\* the sample producer p appends as its k-th: the list run() builds from
\* the line ">p k<"
Sample(p, k) == <<Flt(p), Flt(k)>>

\* line 181, executed by producer p
Put(p) ==
    /\ put[p] < MSamples
    /\ put' = [put EXCEPT ![p] = put[p] + 1]
    /\ data' = SinkAppend(data, Sample(p, put[p] + 1))
    /\ src' = SinkAppend(src, SampleId(p, put[p] + 1))
    /\ UNCHANGED <<lifevars, consvars, pc, wire, hist, locals, labels,
                   requirebrackets, packageindicator, scopevars,
                   tcl_threaded>>

InitQ ==
    /\ IS_SERIAL_CONNECTED = TRUE
    /\ ser = "open"
    /\ io_thread = 1
    /\ serialconnectedstringvar = "Connected"
    /\ pc = [t \in Threads |-> "idle"]
    /\ mainpc = "idle"
    /\ lastop = "connect:None"
    /\ tcl_threaded = TRUE
    /\ FreshState
    /\ requirebrackets = TRUE
    /\ wire = <<>>

NextQ ==
    \/ \E p \in Producers : Put(p)
    \/ DrainBegin
    \/ DrainGet
    \/ DrainEmpty

SpecQ == InitQ /\ [][NextQ]_vars

\* The consumer is the main thread of lsp.py and pdtest.py: once in its
\* drain loop it keeps being scheduled, whatever the producers do.
SpecQFair ==
    InitQ /\ [][NextQ]_vars /\ WF_vars(DrainGet) /\ WF_vars(DrainEmpty)

\* ---------------------------------------------------------------- SpecScope
\* OScope, built on a label set, is fed batches of rows by its animation
\* (show, line 100).  Times are whole seconds; the axes limits and the line
\* artists are drawing state and are left out.

\* OScope.__init__ line 20: width=2 (seconds)
ScopeWidth == 2

Last(q) == q[Len(q)]

\* python q[n:]
DropFirst(q, n) == SubSeq(q, n + 1, Len(q))

\* line 115: np.searchsorted(self.tdata, tmin) on the sorted tdata
SearchSorted(td, tmin) == Cardinality({i \in 1..Len(td) : td[i] < tmin})

\* lines 107-118: the arrays are reset when the last time stamp has left the
\* window; [error] names the exception of ydata[label][-1] on an empty list
ResetArrays(td, yd, md) ==
    IF Last(td) < td[1] + ScopeWidth \/ md = 2
    THEN [tdata |-> td, ydata |-> yd, error |-> "none"]
    ELSE IF md = 0
    THEN IF \E l \in DOMAIN yd : yd[l] = <<>>
         THEN [tdata |-> <<Last(td)>>, ydata |-> yd, error |-> "IndexError"]
         ELSE [tdata |-> <<Last(td)>>,
               ydata |-> [l \in DOMAIN yd |-> <<Last(yd[l])>>],
               error |-> "none"]
    ELSE LET imin == SearchSorted(td, Last(td) - ScopeWidth)
         IN  [tdata |-> DropFirst(td, imin),
              ydata |-> [l \in DOMAIN yd |-> DropFirst(yd[l], imin)],
              error |-> "none"]

\* lines 125-128: the fields i, i+1, ... of one row (i counts from 1 as in
\* the sequences here: field i of the row goes to labels[i])
RECURSIVE AppendFields(_, _, _, _)
AppendFields(yd, lbls, row, i) ==
    IF i > Len(row) THEN [ydata |-> yd, error |-> "none"]
    ELSE IF i > Len(lbls) THEN [ydata |-> yd, error |-> "IndexError"]
    ELSE IF lbls[i] \notin DOMAIN yd THEN [ydata |-> yd, error |-> "KeyError"]
    ELSE AppendFields([yd EXCEPT ![lbls[i]] = Append(@, row[i])],
                      lbls, row, i + 1)

\* lines 123-128: the rows k, k+1, ... of the batch
RECURSIVE AppendRows(_, _, _, _, _)
AppendRows(td, yd, lbls, batch, k) ==
    IF k > Len(batch) THEN [tdata |-> td, ydata |-> yd, error |-> "none"]
    ELSE IF batch[k] = <<>>
    THEN [tdata |-> td, ydata |-> yd, error |-> "IndexError"]
    ELSE LET f == AppendFields(yd, lbls, batch[k], 2)
             td1 == Append(td, batch[k][1])
         IN  IF f.error # "none"
             THEN [tdata |-> td1, ydata |-> f.ydata, error |-> f.error]
             ELSE AppendRows(td1, f.ydata, lbls, batch, k + 1)

\* OScope.update(data), lines 103-136
UpdateResult(td, yd, lbls, md, batch) ==
    IF Len(batch) = 0 THEN [tdata |-> td, ydata |-> yd, error |-> "none"]
    ELSE LET r == ResetArrays(td, yd, md)
         IN  IF r.error # "none" THEN r
             ELSE AppendRows(r.tdata, r.ydata, lbls, batch, 1)

MaxTime == 4        \* the latest time stamp of a row
MaxFields == 2      \* data fields of a row
MaxBatch == 2       \* rows of a batch

ScopeValues == {1}

\* rows <<time, value, ...>> with the given time and up to MaxFields values
Rows(t) == {<<t>> \o v : v \in SeqsUpTo(ScopeValues, MaxFields)}

\* batches of up to MaxBatch rows with time stamps increasing from t on
RECURSIVE Batches(_, _)
Batches(t, n) ==
    IF n = 0 THEN {<<>>}
    ELSE {<<>>} \cup UNION {{<<row>> \o rest : row \in Rows(u),
                                               rest \in Batches(u, n - 1)}
                             : u \in (t + 1)..MaxTime}

\* the animation calls update with the next batch of the source
update ==
    /\ \E batch \in Batches(Last(tdata), MaxBatch) :
         LET r == UpdateResult(tdata, ydata, labels, mode, batch)
         IN  /\ tdata' = r.tdata
             /\ ydata' = r.ydata
             /\ scope_error' = IF r.error # "none" THEN r.error
                                ELSE scope_error
    /\ UNCHANGED <<lifevars, consvars, pc, wire, hist, locals, data, src,
                   labels, requirebrackets, packageindicator, put, mode,
                   tcl_threaded>>

\* cycle_mode(event), lines 159-162
cycle_mode ==
    /\ mode' = IF mode + 1 >= 3 THEN 0 ELSE mode + 1
    /\ UNCHANGED <<lifevars, consvars, pc, wire, hist, locals, data, src,
                   labels, requirebrackets, packageindicator, put, tdata,
                   ydata, scope_error, tcl_threaded>>

L_a == <<"a">>
L_b == <<"b">>
ScopeLabelSets == {<<TimeLabel>>, <<TimeLabel, L_a>>, <<TimeLabel, L_a, L_b>>}

InitScope ==
    /\ ReaderRunning
    /\ FreshSource
    /\ labels \in ScopeLabelSets
    /\ ScopeInit
    /\ requirebrackets = TRUE
    /\ wire = <<>>

NextScope ==
    \/ update
    \/ cycle_mode

SpecScope == InitScope /\ [][NextScope]_vars

\* ----------------------------------------------------------------- SpecLife
\* The GUI thread calls connectToSerial, disconnectFromSerial and
\* closeAllSerialPorts in any order; every successful connect starts a
\* reader thread.

\* toggleSerialConnectedLabel(connection)
toggleSerialConnectedLabel(connection) ==
    IF connection THEN "Connected" ELSE "Unconnected"

\* lines 85-90: serial.Serial(port, baudrate, timeout=1) opens the device
ConnectOpen ==
    /\ mainpc = "idle"
    /\ \E t \in Threads : pc[t] = "idle"
    /\ ser' = "open"
    /\ mainpc' = "connect_opened"
    /\ UNCHANGED <<IS_SERIAL_CONNECTED, io_thread, serialconnectedstringvar,
                   lastop, consvars, pc, wire, hist, locals, data, src,
                   labels, requirebrackets, packageindicator, put, scopevars,
                   tcl_threaded>>

\* a mutated line 94: without the return, the call goes on to line 96
ConnectFailFallsThrough ==
    /\ mainpc = "idle"
    /\ \E t \in Threads : pc[t] = "idle"
    /\ serialconnectedstringvar' = toggleSerialConnectedLabel(FALSE)
    /\ lastop' = "connect:-1"
    /\ mainpc' = "connect_opened"
    /\ UNCHANGED <<IS_SERIAL_CONNECTED, ser, io_thread, consvars, pc,
                   wire, hist, locals, data, src, labels, requirebrackets,
                   packageindicator, put, scopevars,
                   tcl_threaded>>

\* lines 91-94: the open raises; self.ser keeps the object it named, the
\* label is set and the call returns -1
ConnectFail ==
    /\ mainpc = "idle"
    /\ serialconnectedstringvar' = toggleSerialConnectedLabel(FALSE)
    /\ lastop' = "connect:-1"
    /\ mainpc' = "idle"
    /\ UNCHANGED <<IS_SERIAL_CONNECTED, ser, io_thread, consvars, pc,
                   wire, hist, locals, data, src, labels, requirebrackets,
                   packageindicator, put, scopevars,
                   tcl_threaded>>

\* lines 96-101: the flag is set and a new thread is started on run()
ConnectStart ==
    /\ mainpc = "connect_opened"
    /\ IS_SERIAL_CONNECTED' = TRUE
    /\ serialconnectedstringvar' = toggleSerialConnectedLabel(TRUE)
    /\ LET t == Min({u \in Threads : pc[u] = "idle"})
       IN  /\ io_thread' = t
           /\ pc' = [pc EXCEPT ![t] = "while"]
    /\ mainpc' = "idle"
    /\ lastop' = "connect:None"
    /\ UNCHANGED <<ser, consvars, wire, hist, locals, data, src, labels,
                   requirebrackets, packageindicator, put, scopevars,
                   tcl_threaded>>

\* lines 107-108: if self.IS_SERIAL_CONNECTED: self.ser.close()
DisconnectClose ==
    /\ mainpc = "idle"
    /\ IF IS_SERIAL_CONNECTED
       THEN ser' = "closed" /\ mainpc' = "disc_closed"
       ELSE ser' = ser /\ mainpc' = "disc_join"
    /\ UNCHANGED <<IS_SERIAL_CONNECTED, io_thread, serialconnectedstringvar,
                   lastop, consvars, pc, wire, hist, locals, data, src,
                   labels, requirebrackets, packageindicator, put, scopevars,
                   tcl_threaded>>

\* lines 109-110: the label is swapped, then the flag is cleared
DisconnectClearFlag ==
    /\ mainpc = "disc_closed"
    /\ serialconnectedstringvar' = toggleSerialConnectedLabel(FALSE)
    /\ IS_SERIAL_CONNECTED' = FALSE
    /\ mainpc' = "disc_join"
    /\ UNCHANGED <<ser, io_thread, lastop, consvars, pc, wire, hist, locals,
                   data, src, labels, requirebrackets, packageindicator, put,
                   scopevars, tcl_threaded>>

\* a mutated line 112: the join does not wait
JoinSkipped(t) == TRUE

\* line 112: join() returns once the thread has left run()
Joined(t) == pc[t] \in {"done", "crashed"}

\* lines 111-112: if self.io_thread is not None: self.io_thread.join()
DisconnectJoin ==
    /\ mainpc = "disc_join"
    /\ io_thread # 0 => Joined(io_thread)
    /\ mainpc' = "idle"
    /\ lastop' = "disconnect"
    /\ UNCHANGED <<IS_SERIAL_CONNECTED, ser, io_thread,
                   serialconnectedstringvar, consvars, pc, wire, hist, locals,
                   data, src, labels, requirebrackets, packageindicator, put,
                   scopevars, tcl_threaded>>

\* lines 73-80: p.close() fails on every port name, then the flag is cleared
closeAllSerialPorts ==
    /\ mainpc = "idle"
    /\ IS_SERIAL_CONNECTED' = FALSE
    /\ lastop' = "closeAllSerialPorts"
    /\ UNCHANGED <<ser, io_thread, serialconnectedstringvar, mainpc, consvars,
                   pc, wire, hist, locals, data, src, labels, requirebrackets,
                   packageindicator, put, scopevars,
                   tcl_threaded>>

\* line 155: readline() on a closed port raises and the thread dies
ReadClosed(t) ==
    /\ pc[t] = "readline"
    /\ ser = "closed"
    /\ pc' = [pc EXCEPT ![t] = "crashed"]
    /\ UNCHANGED <<lifevars, consvars, wire, hist, locals, data, src, labels,
                   requirebrackets, packageindicator, put, scopevars,
                   tcl_threaded>>

LifeFrames == {F_3, F_undecodable}

InitLife ==
    /\ IS_SERIAL_CONNECTED = FALSE
    /\ ser = "none"
    /\ io_thread = 0
    /\ serialconnectedstringvar = "Unconnected"
    /\ pc = [t \in Threads |-> "idle"]
    /\ mainpc = "idle"
    /\ lastop = "none"
    /\ tcl_threaded \in BOOLEAN
    /\ FreshState
    /\ requirebrackets = TRUE
    /\ wire \in SeqsUpTo(LifeFrames, MaxWire)

NextLife ==
    \/ ConnectOpen
    \/ ConnectFail
    \/ ConnectStart
    \/ DisconnectClose
    \/ DisconnectClearFlag
    \/ DisconnectJoin
    \/ closeAllSerialPorts
    \/ \E t \in Threads : WhileCheck(t)
    \/ \E t \in Threads : ReadFrame(t)
    \/ \E t \in Threads : ReadTimeout(t)
    \/ \E t \in Threads : ReadUndecodable(t)
    \/ \E t \in Threads : ReadClosed(t)
    \/ \E t \in Threads : ReadLine(t)
    \/ \E t \in Threads : Body(t)

SpecLife == InitLife /\ [][NextLife]_vars

\* ------------------------------------------------- the frame as specified
\* The payload, tokens, values and labels the specification assigns to a
\* trimmed text, used to state the claims.
HasOpen(raw) == Positions(raw, ">") # {}
OpenPos(raw) == Max(Positions(raw, ">"))
ClosesAfterOpen(raw) == {i \in Positions(raw, "<") : i > OpenPos(raw)}
HasClose(raw) == ClosesAfterOpen(raw) # {}

\* the text strictly between the last ">" and the first "<" after it
PayloadBracketed(raw) ==
    SubSeq(raw, OpenPos(raw) + 1, Min(ClosesAfterOpen(raw)) - 1)

\* the text after the last ">" up to the end
PayloadToEnd(raw) == SubSeq(raw, OpenPos(raw) + 1, Len(raw))

HasColon(tok) == Positions(tok, ":") # {}
ValueText(tok) ==
    IF HasColon(tok)
    THEN SubSeq(tok, Min(Positions(tok, ":")) + 1, Len(tok))
    ELSE tok
IndexName(i) ==
    <<CHOOSE c \in Digits : DigitVal(c) = i>>
NameOf(tok, i) ==
    IF HasColon(tok) THEN SubSeq(tok, 1, Min(Positions(tok, ":")) - 1)
    ELSE IndexName(i - 1)

\* a frame ">tok tok ...<" whose tokens are value or name:value
WellFormedToken(tok) ==
    /\ IsFloat(ValueText(tok))
    /\ HasColon(tok) => /\ Min(Positions(tok, ":")) > 1
                        /\ Cardinality(Positions(tok, ":")) = 1
WellFormed(raw) ==
    /\ Len(raw) >= 3
    /\ Positions(raw, ">") = {1}
    /\ Positions(raw, "<") = {Len(raw)}
    /\ \A i \in 1..Len(Split(PayloadBracketed(raw))) :
          WellFormedToken(Split(PayloadBracketed(raw))[i])

FrameValues(raw) ==
    LET toks == Split(PayloadBracketed(raw))
    IN  [i \in 1..Len(toks) |-> Flt(FloatOf(ValueText(toks[i])))]
FrameLabels(raw) ==
    LET toks == Split(PayloadBracketed(raw))
    IN  <<TimeLabel>> \o [i \in 1..Len(toks) |-> NameOf(toks[i], i)]

\* thread t takes a line from the transport in this step
Receives(t) ==
    /\ pc[t] = "readline" /\ pc'[t] = "while"
    /\ wire # <<>> /\ wire' = Tail(wire)
Received == Strip(Head(wire))

\* ------------------------------------------------------------------ claims

\* C1: a received frame whose payload has a token that is not a number is
\* discarded whole: the step that processes it appends nothing to the sink.
\* (Stated for the frames on which run() takes the bracketed payload, so
\* that only the handling of the bad token is in question.)
C1_BadTokenFrameDiscarded ==
    [][\A t \in Threads :
         (/\ Receives(t)
          /\ requirebrackets
          /\ HasOpen(Received) /\ HasClose(Received)
          /\ payload'[t] = PayloadBracketed(Received)
          /\ \E i \in 1..Len(Split(PayloadBracketed(Received))) :
                LET tok == Split(PayloadBracketed(Received))[i]
                IN  tok # <<>> /\ ~IsFloat(ValueText(tok)))
         => data' = data]_vars

\* C2: a received frame without ">" appends nothing to the sink, leaves the
\* label set as it is, and the reader goes back to the top of its loop.
C2_NoOpenDropped ==
    [][\A t \in Threads :
         (pc[t] = "readline" /\ wire # <<>> /\ wire' = Tail(wire)
             /\ Decodable(Head(wire)) /\ ~HasOpen(Received))
         => /\ data' = data
            /\ labels' = labels
            /\ pc'[t] = "while"]_vars

\* C2 witness: a non-empty line without ">" was dropped and the next line,
\* ">3<", was then read and its sample appended.
C2_Witness ==
    /\ Len(hist) = 2
    /\ Strip(hist[1]) # <<>>
    /\ ~HasOpen(Strip(hist[1]))
    /\ outcome[1] = "good"
    /\ data = <<(<<Flt(3)>>)>>
    /\ src = <<2>>
    /\ labels = <<TimeLabel>>

\* C3: with the trailing delimiter required, the payload of a frame with a
\* ">" is the text between the last ">" and the first "<" after it, and a
\* frame with no "<" after the last ">" is discarded.
C3_PayloadLastOpenFirstCloseAfter ==
    [][\A t \in Threads :
         (Receives(t) /\ requirebrackets /\ HasOpen(Received))
         => IF HasClose(Received)
            THEN /\ outcome'[t] \in {"good", "bad"}
                 /\ payload'[t] = PayloadBracketed(Received)
            ELSE /\ outcome'[t] = "no_lt"
                 /\ data' = data]_vars

\* C4: with the trailing delimiter not required, the payload of a frame with
\* a ">" is all of the text after the last ">".
C4_PayloadRunsToEnd ==
    [][\A t \in Threads :
         (Receives(t) /\ ~requirebrackets /\ HasOpen(Received))
         => /\ outcome'[t] \in {"good", "bad"}
            /\ payload'[t] = PayloadToEnd(Received)]_vars

\* C5: a well-formed frame ">n1:v1 n2:v2<" appends one sample, a timestamp
\* followed by the values in frame order, and the label set becomes "time"
\* followed by the names; the two have the same length.
C5_WellFormedFrameSample ==
    [][\A t \in Threads :
         (Receives(t) /\ requirebrackets /\ WellFormed(Received))
         => /\ Len(data') = Len(data) + 1
            /\ Tail(data'[Len(data')]) = FrameValues(Received)
            /\ labels' = FrameLabels(Received)
            /\ Len(labels') = Len(data'[Len(data')])]_vars

\* C6: the label set is replaced exactly by the steps that parse a
\* well-formed frame whose labels differ from the current ones, and it is
\* replaced by that frame's labels.
C6_LabelsReplacedOnChange ==
    [][/\ (labels' # labels) <=>
              \E t \in Threads :
                 /\ Receives(t) /\ requirebrackets /\ WellFormed(Received)
                 /\ FrameLabels(Received) # labels
       /\ (labels' # labels) => labels' = FrameLabels(Received)]_vars

\* C8: the elements of the sink, and before them the elements the consumer
\* has drained, are in the order in which their lines were received, each
\* the result of its own line.
Increasing(q) == \A i, j \in 1..Len(q) : i < j => q[i] < q[j]
Occurrences(q, x) == Cardinality({i \in 1..Len(q) : q[i] = x})
InDisconnect ==
    \/ mainpc = "idle" /\ mainpc' \in {"disc_closed", "disc_join"}
    \/ mainpc \in {"disc_closed", "disc_join"}
C9_FlagFirstThenJoin ==
    [][/\ (InDisconnect /\ ser' # ser) => ~IS_SERIAL_CONNECTED
       /\ (mainpc = "disc_join" /\ mainpc' = "idle")
             => /\ ~IS_SERIAL_CONNECTED
                /\ \A t \in Threads : pc[t] \in {"idle", "done", "crashed"}
      ]_vars

\* C10 as claimed: a reader thread is started only when none was started
\* before (Created), so none is started after a stop.
Started(t) == pc[t] = "idle" /\ pc'[t] # "idle"
C10_StartedOnlyFromCreated ==
    [][(\E t \in Threads : Started(t))
          => \A u \in Threads : pc[u] = "idle"]_vars

\* C10 as amended: Stopped is not terminal.  A reader thread is started only
\* by the connectToSerial call that opened the device, in whatever state the
\* source is, and becomes the thread io_thread names; disconnectFromSerial
\* and closeAllSerialPorts start none, and when disconnectFromSerial returns
\* the flag is clear and the thread io_thread names is not running.
C10_StartedOnlyByConnect ==
    [][/\ \A t \in Threads :
            Started(t) => /\ mainpc = "connect_opened"
                          /\ ser = "open"
                          /\ IS_SERIAL_CONNECTED'
                          /\ io_thread' = t
                          /\ pc'[t] = "while"
                          /\ \A u \in Threads \ {t} : pc'[u] = pc[u]
       /\ (mainpc = "disc_join" /\ mainpc' = "idle")
             => /\ ~IS_SERIAL_CONNECTED
                /\ io_thread # 0 => pc[io_thread] \in {"done", "crashed"}
      ]_vars

\* C10 witness: the first reader has left run() on seeing the flag clear,
\* a disconnectFromSerial joined it, and a second reader, started by a later
\* connectToSerial, is reading.
C10_Witness ==
    /\ pc[1] = "done"
    /\ pc[2] = "readline"
    /\ io_thread = 2
    /\ IS_SERIAL_CONNECTED
    /\ ser = "open"
    /\ mainpc = "idle"

\* C11: connectToSerial does not return until one valid frame has arrived:
\* in every state where the last call that returned is a successful
\* connectToSerial, the label set holds at least two entries and at least
\* one sample has been appended.
C11_StartReturnsAfterFirstFrame ==
    lastop = "connect:None" => (Len(labels) >= 2 /\ Len(src) >= 1)

\* C12: a connectToSerial whose open fails is not retried and starts
\* nothing: the call returns -1 at once with the label "Unconnected", no
\* thread changes state, the flag, the handle, io_thread and the sink are
\* left as they were (a source that was not connected stays not connected),
\* and as long as no connect has succeeded no reader exists, the flag is
\* clear and no line is read and no sample appended.
FailedOpenStep ==
    /\ lastop' = "connect:-1"
    /\ lastop # lastop' \/ serialconnectedstringvar # serialconnectedstringvar'
C12_FailedOpenStartsNothing ==
    /\ [](io_thread = 0 => /\ ~IS_SERIAL_CONNECTED
                           /\ \A t \in Threads : pc[t] = "idle"
                           /\ hist = <<>>
                           /\ data = <<>>)
    /\ [][FailedOpenStep
            => /\ mainpc = "idle" /\ mainpc' = "idle"
               /\ serialconnectedstringvar' = "Unconnected"
               /\ pc' = pc
               /\ IS_SERIAL_CONNECTED' = IS_SERIAL_CONNECTED
               /\ io_thread' = io_thread
               /\ ser' = ser
               /\ wire' = wire
               /\ data' = data]_vars

\* C12 witness: the only connect so far has failed while a line is waiting
\* on the transport; no reader exists and the sink is empty.
C12_Witness ==
    /\ lastop = "connect:-1"
    /\ io_thread = 0
    /\ wire # <<>>
    /\ mainpc = "idle"
    /\ ~IS_SERIAL_CONNECTED
    /\ \A t \in Threads : pc[t] = "idle"
    /\ data = <<>>

\* C13: frame-local errors do not stop the reader.  Once a frame has been
\* dropped or flagged (empty text, no ">", no "<", a token that is no
\* number), the reader is still in its loop for as long as the flag is set,
\* so a well-formed frame waiting on the transport is not left behind by a
\* reader that has ended.
FrameLocalError(line) ==
    /\ Decodable(line)
    /\ RunBody(line, requirebrackets).branch
           \in {"empty", "no_gt", "no_lt", "bad"}
C13_ReaderSurvivesFrameErrors ==
    (/\ IS_SERIAL_CONNECTED
     /\ \E j \in 1..Len(hist) : FrameLocalError(hist[j])
     /\ \E i \in 1..Len(wire) : WellFormed(wire[i]))
        => pc[1] \in {"while", "readline"}

ReaderCanStep(t) ==
    ENABLED (\/ WhileCheck(t) \/ ReadFrame(t) \/ ReadTimeout(t)
             \/ ReadUndecodable(t) \/ ReadClosed(t) \/ ReadLine(t)
             \/ Body(t))
C15_StopReturns ==
    (mainpc = "disc_join" /\ io_thread # 0)
        => (Joined(io_thread) \/ ReaderCanStep(io_thread))

\* C16: OScope.update takes rows of any number of fields: no exception
\* leaves update, whatever the rows of the batches hold compared with the
\* labels captured at construction.
C16_UpdateTakesAnyRow == scope_error = "none"

\* C17: self.ser belongs to the reader thread for as long as that thread
\* lives: the GUI thread neither closes the handle nor opens a new one in
\* its place while any reader thread is still in run().
ReaderAlive(t) == pc[t] \in {"while", "readline", "body"}
C17_HandleOnlyByReader ==
    [][(\/ ser' # ser
        \/ mainpc = "idle" /\ mainpc' = "connect_opened")
          => \A t \in Threads : ~ReaderAlive(t)]_vars

\* C18: a frame whose payload is empty (">" followed at once by "<", or,
\* with no trailing delimiter required, ">" at the end of the line) is
\* accepted as good: one sample is appended that holds the time stamp alone,
\* no value and no token, and the label set is the single label "time".
ZeroTokens(raw) ==
    /\ HasOpen(raw)
    /\ IF requirebrackets
       THEN HasClose(raw) /\ PayloadBracketed(raw) = <<>>
       ELSE PayloadToEnd(raw) = <<>>
C18_EmptyPayloadAccepted ==
    [][\A t \in Threads :
         (Receives(t) /\ ZeroTokens(Received))
         => /\ outcome'[t] = "good"
            /\ Len(data') = Len(data) + 1
            /\ Len(data'[Len(data')]) = 1
            /\ data'[Len(data')][1].kind # "str"
            /\ labels' = <<TimeLabel>>]_vars

\* C19: whatever the order of connect and disconnect calls, at most one
\* thread is in run() at a time, and a thread in run() is the one io_thread
\* names, so that it is the thread the next disconnectFromSerial joins.
C19_AtMostOneReader ==
    /\ Cardinality({t \in Threads : ReaderAlive(t)}) <= 1
    /\ \A t \in Threads : ReaderAlive(t) => io_thread = t

\* C20: once disconnectFromSerial has returned, and until a connectToSerial
\* is called, nothing is appended to window.data: the last frame a reader
\* had in hand was appended before the return.
C20_NoAppendAfterDisconnect ==
    [][(lastop = "disconnect" /\ mainpc = "idle") => data' = data]_vars

\* C21: while IS_SERIAL_CONNECTED is true, a connectToSerial has returned
\* successfully, the serial handle is open and the reader thread io_thread
\* names is in run(): the reader does not end while the flag is set.
C21_ConnectedMeansReading ==
    IS_SERIAL_CONNECTED
        => /\ io_thread # 0
           /\ ser = "open"
           /\ ReaderAlive(io_thread)

\* C22: after every update, in each mode and for every batch, every value
\* buffer is as long as the time buffer.
C22_BuffersSameLength ==
    \A l \in DOMAIN ydata : Len(ydata[l]) = Len(tdata)

====
